---- MODULE Spec2Model ----
(***************************************************************************)
(* Model of the declarative route system that the scaffolder generates     *)
(* into src/helpers/route-builder.ts: the DeclarativeRouter class with its *)
(* middleware and controller registries, the chain builder, the validator  *)
(* and the apply step.                                                     *)
(*                                                                         *)
(* Strings that the code only compares are atoms.  A handler path is a     *)
(* sequence of tokens in which "." is the separator that split('.') cuts   *)
(* at.  An error message is the tuple of the parts its template literal    *)
(* joins.  An optional array field is a record with a presence flag, so    *)
(* that an absent field and an empty array stay different (an empty array  *)
(* is truthy in JavaScript).                                               *)
(***************************************************************************)
EXTENDS Integers, Sequences, FiniteSets, TLC

VARIABLES
    config,              \* this.config: defaultMiddlewares, defaultRoles, routes
    middlewareRegistry,  \* this.middlewareRegistry: name -> registered callable
    controllerRegistry,  \* this.controllerRegistry: name -> controller object
    last,                \* the most recent call: operation, outcome, and the
                         \* routing surface it was handed, as the call left it
    remembered,          \* history: the outcome of an earlier chain build and
                         \* the kinds of call made since (SpecFixed only)
    requested,           \* history: the arguments of the latest register call
                         \* (SpecRegistry only)
    backend,             \* the lock backend the cron module was generated for
    lockStore,           \* the entry of the one lockKey in that backend
    now,                 \* the clock, in units of which the ttl is counted
    instances            \* per application instance: where its cron callback
                         \* stands, and the locals of its acquireLock call

routerVars == <<config, middlewareRegistry, controllerRegistry, last>>
cronVars == <<backend, lockStore, now, instances>>
vars == <<routerVars, remembered, requested, cronVars>>

----------------------------------------------------------------------------
(* Bounds of the explored inputs *)

MaxRoutes == 3
MaxLen == 2
NumInstances == 2
MaxTime == 4
Ttl == 2

----------------------------------------------------------------------------
(* Values *)

MiddlewareNames == {"logging", "auth", "roleCheck"}
MiddlewareValues == {"f1", "f2"}
ControllerNames == {"user"}
ControllerObjects == {{}, {"get"}}
RoleNames == {"admin", "editor"}

SeqUpTo(S, n) == UNION {[1..k -> S] : k \in 0..n}

\* an optional array field of a route definition
None == [present |-> FALSE, value |-> <<>>]
Some(s) == [present |-> TRUE, value |-> s]
Opt(S) == {None} \cup {Some(s) : s \in S}

\* if (field): undefined is falsy, every array (the empty one too) is truthy
Truthy(opt) == opt.present

\* field || []
OrEmpty(opt) == IF Truthy(opt) THEN opt.value ELSE <<>>

\* Array.prototype.includes
Includes(s, x) == \E i \in DOMAIN s : s[i] = x

\* Map.prototype.has / set
Has(reg, name) == name \in DOMAIN reg
\* mutant: a name that is already registered keeps its value
MapSet_KeepExisting(reg, name, value) ==
    [n \in (DOMAIN reg) \cup {name} |->
        IF n \in DOMAIN reg THEN reg[n] ELSE value]

MapSet(reg, name, value) ==
    [n \in (DOMAIN reg) \cup {name} |-> IF n = name THEN value ELSE reg[n]]

EmptyMap == [n \in {} |-> "f1"]

\* String.prototype.toLowerCase on the method names of METHODS
ToLowerCase(method) ==
    CASE method = "GET" -> "get"
      [] method = "POST" -> "post"
      [] method = "PUT" -> "put"
      [] method = "DELETE" -> "delete"
      [] method = "PATCH" -> "patch"
      [] OTHER -> method

\* a registered callable as a chain entry, and the result of calling a
\* registered factory with an argument
Callable(fn) == [fn |-> fn, applied |-> FALSE, arg |-> <<>>]
Invoke(fn, arg) == [fn |-> fn, applied |-> TRUE, arg |-> arg]

\* outcomes of a call
Returned(v) == [threw |-> FALSE, error |-> <<>>, value |-> v]
Threw(e) == [threw |-> TRUE, error |-> e, value |-> <<>>]

\* the messages of the template literals
ControllerNotRegistered(c) == <<"Controller", c, "not registered">>
MethodNotFound(m, c) == <<"Method", m, "not found in controller", c>>
MiddlewareNotRegistered(n) == <<"Middleware", n, "not registered">>
RouteError(route, message) == <<"Route", route.method, route.path, message>>

----------------------------------------------------------------------------
(* DeclarativeRouter.resolveHandler *)

\* handlerPath.split('.'); no two name tokens are adjacent in a path
RECURSIVE Split(_)
Split(s) ==
    IF s = <<>> THEN <<"">>
    ELSE IF Head(s) = "." THEN <<"">> \o Split(Tail(s))
    ELSE <<Head(s)>> \o Tail(Split(Tail(s)))

\* const [controllerName, methodName] = parts
ControllerNameOf(handlerPath) == Split(handlerPath)[1]
MethodNameOf(handlerPath) ==
    IF Len(Split(handlerPath)) >= 2 THEN Split(handlerPath)[2] ELSE "undefined"

\* mutant: the check that the controller has the method is left out
ResolveHandler_NoMethodCheck(handlerPath) ==
    LET controllerName == ControllerNameOf(handlerPath)
        methodName == MethodNameOf(handlerPath)
    IN  IF ~Has(controllerRegistry, controllerName)
        THEN Threw(ControllerNotRegistered(controllerName))
        ELSE Returned(<<controllerName, methodName>>)

\* mutant: one test and one message for both ways a handler fails to resolve
ResolveHandler_OneMessage(handlerPath) ==
    LET controllerName == ControllerNameOf(handlerPath)
        methodName == MethodNameOf(handlerPath)
    IN  IF \/ ~Has(controllerRegistry, controllerName)
           \/ methodName \notin controllerRegistry[controllerName]
        THEN Threw(ControllerNotRegistered(controllerName))
        ELSE Returned(<<controllerName, methodName>>)

ResolveHandler(handlerPath) ==
    LET controllerName == ControllerNameOf(handlerPath)
        methodName == MethodNameOf(handlerPath)
    IN  IF ~Has(controllerRegistry, controllerName)
        THEN Threw(ControllerNotRegistered(controllerName))
        ELSE IF methodName \notin controllerRegistry[controllerName]
        THEN Threw(MethodNotFound(methodName, controllerName))
        ELSE Returned(<<controllerName, methodName>>)

----------------------------------------------------------------------------
(* DeclarativeRouter.buildMiddlewareChain *)

\* mutant: the enabled names are put before the surviving defaults
ChainMiddlewares_EnabledFirst(route) ==
    LET middlewares == config.defaultMiddlewares
        filtered == IF Truthy(route.disabled)
                    THEN SelectSeq(middlewares,
                             LAMBDA m : ~Includes(route.disabled.value, m))
                    ELSE middlewares
    IN  IF Truthy(route.enabled) THEN route.enabled.value \o filtered
        ELSE filtered

\* mutant: the disable filter keeps the disabled names and drops the others
ChainMiddlewares_FilterInverted(route) ==
    LET middlewares == config.defaultMiddlewares
        filtered == IF Truthy(route.disabled)
                    THEN SelectSeq(middlewares,
                             LAMBDA m : Includes(route.disabled.value, m))
                    ELSE middlewares
    IN  IF Truthy(route.enabled) THEN filtered \o route.enabled.value
        ELSE filtered

\* mutant: the disable filter runs after the enabled names were appended
ChainMiddlewares_FilterAfterAppend(route) ==
    LET middlewares == config.defaultMiddlewares
        appended == IF Truthy(route.enabled)
                    THEN middlewares \o route.enabled.value
                    ELSE middlewares
    IN  IF Truthy(route.disabled)
        THEN SelectSeq(appended, LAMBDA m : ~Includes(route.disabled.value, m))
        ELSE appended

\* mutant: a default named twice is kept once
ChainMiddlewares_Deduplicated(route) ==
    LET middlewares ==
            SelectSeq([k \in DOMAIN config.defaultMiddlewares |->
                          [name |-> config.defaultMiddlewares[k],
                           first |-> \A j \in 1..(k - 1) :
                               config.defaultMiddlewares[j]
                                   # config.defaultMiddlewares[k]]],
                      LAMBDA e : e.first)
        names == [k \in DOMAIN middlewares |-> middlewares[k].name]
        filtered == IF Truthy(route.disabled)
                    THEN SelectSeq(names,
                             LAMBDA m : ~Includes(route.disabled.value, m))
                    ELSE names
    IN  IF Truthy(route.enabled) THEN filtered \o route.enabled.value
        ELSE filtered

\* the names the loop resolves: defaults, minus disabled, plus enabled
ChainMiddlewares(route) ==
    LET middlewares == config.defaultMiddlewares
        filtered == IF Truthy(route.disabled)
                    THEN SelectSeq(middlewares,
                             LAMBDA m : ~Includes(route.disabled.value, m))
                    ELSE middlewares
    IN  IF Truthy(route.enabled) THEN filtered \o route.enabled.value
        ELSE filtered

\* mutant: excludeRoles is applied after roles has replaced the defaults
ChainRoles_ExcludeAfterReplace(route) ==
    LET roles == IF Truthy(route.roles) THEN route.roles.value
                 ELSE config.defaultRoles
    IN  IF Truthy(route.excludeRoles)
        THEN SelectSeq(roles, LAMBDA r : ~Includes(route.excludeRoles.value, r))
        ELSE roles

\* the role list: defaults, minus excludeRoles, replaced by roles
ChainRoles(route) ==
    LET roles == config.defaultRoles
        filtered == IF Truthy(route.excludeRoles)
                    THEN SelectSeq(roles,
                             LAMBDA r : ~Includes(route.excludeRoles.value, r))
                    ELSE roles
    IN  IF Truthy(route.roles) THEN route.roles.value ELSE filtered

\* the role-check entry appended after the named middleware
RoleEntries(roles) ==
    IF Len(roles) > 0
    THEN IF Has(middlewareRegistry, "roleCheck")
         THEN <<Invoke(middlewareRegistry["roleCheck"], roles)>>
         ELSE <<>>
    ELSE <<>>

\* mutant: a name that is not registered is left out of the chain
BuildMiddlewareChain_SkipMissing(route) ==
    LET middlewares == SelectSeq(ChainMiddlewares(route),
                           LAMBDA m : Has(middlewareRegistry, m))
        roles == ChainRoles(route)
    IN  Returned([i \in DOMAIN middlewares |->
                     Callable(middlewareRegistry[middlewares[i]])]
                 \o RoleEntries(roles))

BuildMiddlewareChain(route) ==
    LET middlewares == ChainMiddlewares(route)
        roles == ChainRoles(route)
        missing == {i \in DOMAIN middlewares :
                        ~Has(middlewareRegistry, middlewares[i])}
    IN  IF missing # {}
        THEN LET first == CHOOSE i \in missing : \A j \in missing : i <= j
             IN  Threw(MiddlewareNotRegistered(middlewares[first]))
        ELSE Returned([i \in DOMAIN middlewares |->
                           Callable(middlewareRegistry[middlewares[i]])]
                      \o RoleEntries(roles))

----------------------------------------------------------------------------
(* RouteBuilder (legacy), constructed with the router's defaults and given  *)
(* the router's registrations                                              *)

\* buildMiddlewareChain() called without a config
NoConfig == [present |-> FALSE, include |-> None, exclude |-> None,
             roles |-> None, excludeRole |-> None]

\* mutant: the exclude filter runs after the include names were appended
RouteBuilderMiddlewares_ExcludeAfterInclude(cfg) ==
    LET middlewares == config.defaultMiddlewares
        included == IF cfg.present /\ Truthy(cfg.include)
                    THEN middlewares \o cfg.include.value
                    ELSE middlewares
    IN  IF cfg.present /\ Truthy(cfg.exclude)
        THEN SelectSeq(included, LAMBDA m : ~Includes(cfg.exclude.value, m))
        ELSE included

RouteBuilderMiddlewares(cfg) ==
    LET middlewares == config.defaultMiddlewares
        filtered == IF cfg.present /\ Truthy(cfg.exclude)
                    THEN SelectSeq(middlewares,
                             LAMBDA m : ~Includes(cfg.exclude.value, m))
                    ELSE middlewares
    IN  IF cfg.present /\ Truthy(cfg.include)
        THEN filtered \o cfg.include.value
        ELSE filtered

RouteBuilderRoles(cfg) ==
    LET roles == config.defaultRoles
        filtered == IF cfg.present /\ Truthy(cfg.excludeRole)
                    THEN SelectSeq(roles,
                             LAMBDA r : ~Includes(cfg.excludeRole.value, r))
                    ELSE roles
    IN  IF cfg.present /\ Truthy(cfg.roles) THEN cfg.roles.value
        ELSE filtered

\* RouteBuilder.buildMiddlewareChain(config?)
RouteBuilderChain(cfg) ==
    LET middlewares == RouteBuilderMiddlewares(cfg)
        roles == RouteBuilderRoles(cfg)
        missing == {i \in DOMAIN middlewares :
                        ~Has(middlewareRegistry, middlewares[i])}
    IN  IF missing # {}
        THEN LET first == CHOOSE i \in missing : \A j \in missing : i <= j
             IN  Threw(MiddlewareNotRegistered(middlewares[first]))
        ELSE Returned([i \in DOMAIN middlewares |->
                           Callable(middlewareRegistry[middlewares[i]])]
                      \o RoleEntries(roles))

\* RouteBuilder.route(handler, config?): [...middlewares, handler]
RouteBuilderRoute(handler, cfg) ==
    LET r == RouteBuilderChain(cfg)
    IN  IF r.threw THEN r ELSE Returned(r.value \o <<Callable(handler)>>)

----------------------------------------------------------------------------
(* DeclarativeRouter.validate *)

\* mutant: resolveHandler is called outside any try block
HandlerCheck_NoCatch(route) ==
    LET r == ResolveHandler(route.handler)
    IN  IF r.threw THEN Threw(r.error) ELSE Returned(<<>>)

\* try { this.resolveHandler(route.handler) } catch (error) { errors.push }:
\* whatever resolveHandler throws is caught and becomes one error entry
HandlerCheck(route) ==
    LET r == ResolveHandler(route.handler)
    IN  IF r.threw THEN Returned(<<RouteError(route, r.error)>>)
        ELSE Returned(<<>>)

HandlerErrors(route) == HandlerCheck(route).value

\* mutant: only defaultMiddlewares is checked, the enabled names are not
MiddlewareErrors_DefaultsOnly(route) ==
    LET missing == SelectSeq(config.defaultMiddlewares,
                       LAMBDA mw : ~Has(middlewareRegistry, mw))
    IN  [i \in DOMAIN missing |->
            RouteError(route, MiddlewareNotRegistered(missing[i]))]

\* mutant: the names checked are those left after the disable filter
MiddlewareErrors_AfterDisable(route) ==
    LET missing == SelectSeq(ChainMiddlewares(route),
                       LAMBDA mw : ~Has(middlewareRegistry, mw))
    IN  [i \in DOMAIN missing |->
            RouteError(route, MiddlewareNotRegistered(missing[i]))]

MiddlewareErrors(route) ==
    LET allMiddlewares == config.defaultMiddlewares \o OrEmpty(route.enabled)
        missing == SelectSeq(allMiddlewares,
                       LAMBDA mw : ~Has(middlewareRegistry, mw))
    IN  [i \in DOMAIN missing |->
            RouteError(route, MiddlewareNotRegistered(missing[i]))]

\* mutant: the loop returns at the first route that has an error
RECURSIVE ValidationErrors_StopAtFirst(_)
ValidationErrors_StopAtFirst(routes) ==
    IF routes = <<>> THEN <<>>
    ELSE LET errors == HandlerErrors(Head(routes))
                       \o MiddlewareErrors(Head(routes))
         IN  IF errors # <<>> THEN errors
             ELSE ValidationErrors_StopAtFirst(Tail(routes))

\* mutant: a route's middleware errors are pushed before its handler error
RECURSIVE ValidationErrors_MiddlewareFirst(_)
ValidationErrors_MiddlewareFirst(routes) ==
    IF routes = <<>> THEN <<>>
    ELSE MiddlewareErrors(Head(routes)) \o HandlerErrors(Head(routes))
         \o ValidationErrors_MiddlewareFirst(Tail(routes))

RECURSIVE ValidationErrors(_)
ValidationErrors(routes) ==
    IF routes = <<>> THEN <<>>
    ELSE HandlerErrors(Head(routes)) \o MiddlewareErrors(Head(routes))
         \o ValidationErrors(Tail(routes))

Validate ==
    LET errors == ValidationErrors(config.routes)
    IN  [valid |-> Len(errors) = 0, errors |-> errors]

\* validate() as a call: it throws what escapes an iteration of its loop, and
\* returns the report otherwise
ValidateOutcome ==
    LET routes == config.routes
        escaping == {i \in DOMAIN routes : HandlerCheck(routes[i]).threw}
    IN  IF escaping = {} THEN [threw |-> FALSE, error |-> <<>>]
        ELSE [threw |-> TRUE,
              error |-> HandlerCheck(routes[CHOOSE i \in escaping :
                            \A j \in escaping : i <= j]).error]

----------------------------------------------------------------------------
(* DeclarativeRouter.applyToExpress / applyToHono *)

\* what one iteration of the loop throws, if it throws
RouteFailure(route) ==
    IF BuildMiddlewareChain(route).threw THEN BuildMiddlewareChain(route)
    ELSE ResolveHandler(route.handler)

\* mutant: the method is used as the config spells it
Registration_MethodAsGiven(route) ==
    [op |-> route.method,
     path |-> route.path,
     middlewares |-> BuildMiddlewareChain(route).value,
     handler |-> ResolveHandler(route.handler).value]

\* router[method](route.path, ...middlewares, handler)
Registration(route) ==
    [op |-> ToLowerCase(route.method),
     path |-> route.path,
     middlewares |-> BuildMiddlewareChain(route).value,
     handler |-> ResolveHandler(route.handler).value]

\* mutant: the routes are registered from the last to the first
Apply_LastRouteFirst ==
    LET routes == config.routes
        n == Len(routes)
        failing == {i \in DOMAIN routes : RouteFailure(routes[i]).threw}
        stop == IF failing = {} THEN 0
                ELSE CHOOSE i \in failing : \A j \in failing : i >= j
        surface == [k \in 1..(n - stop) |-> Registration(routes[n + 1 - k])]
    IN  IF failing = {}
        THEN [threw |-> FALSE, error |-> <<>>, surface |-> surface]
        ELSE [threw |-> TRUE, error |-> RouteFailure(routes[stop]).error,
              surface |-> surface]

\* the loop over config.routes on a surface with no routes yet: the calls
\* made before the first throwing iteration stay on the surface
Apply ==
    LET routes == config.routes
        failing == {i \in DOMAIN routes : RouteFailure(routes[i]).threw}
        stop == IF failing = {} THEN Len(routes) + 1
                ELSE CHOOSE i \in failing : \A j \in failing : i <= j
        surface == [i \in 1..(stop - 1) |-> Registration(routes[i])]
    IN  IF failing = {}
        THEN [threw |-> FALSE, error |-> <<>>, surface |-> surface]
        ELSE [threw |-> TRUE, error |-> RouteFailure(routes[stop]).error,
              surface |-> surface]

----------------------------------------------------------------------------
(* Configurations *)

\* the route definitions of the generated example route file and of the
\* documented scenario, and one whose handler path has no method part
RouteDefinitions ==
    { [method |-> "GET", path |-> "/example", handler |-> <<"user", ".", "get">>,
       enabled |-> None, disabled |-> None, roles |-> None,
       excludeRoles |-> None],
      [method |-> "GET", path |-> "/public", handler |-> <<"user", ".", "get">>,
       enabled |-> None, disabled |-> Some(<<"logging">>), roles |-> None,
       excludeRoles |-> None],
      [method |-> "POST", path |-> "/admin", handler |-> <<"user", ".", "get">>,
       enabled |-> Some(<<"auth">>), disabled |-> None,
       roles |-> Some(<<"admin">>), excludeRoles |-> None],
      [method |-> "DELETE", path |-> "/item", handler |-> <<"user">>,
       enabled |-> None, disabled |-> None, roles |-> None,
       excludeRoles |-> Some(<<"admin">>)] }

RouteTables == UNION {[1..n -> RouteDefinitions] : n \in 1..MaxRoutes}

TableConfigs ==
    [defaultMiddlewares : {<<"logging">>},
     defaultRoles : {<<>>, <<"admin">>},
     routes : RouteTables]

\* one route whose role fields range over every list up to MaxLen
RoleRoutes ==
    [method : {"GET"}, path : {"/example"}, handler : {<<"user", ".", "get">>},
     enabled : {None}, disabled : {None},
     roles : Opt(SeqUpTo(RoleNames, MaxLen)),
     excludeRoles : Opt(SeqUpTo(RoleNames, MaxLen))]

\* one route whose middleware fields range over every list up to MaxLen
MiddlewareRoutes ==
    [method : {"GET"}, path : {"/example"}, handler : {<<"user", ".", "get">>},
     enabled : Opt(SeqUpTo({"logging", "auth"}, MaxLen)),
     disabled : Opt(SeqUpTo({"logging", "auth"}, MaxLen)),
     roles : {None, Some(<<"admin">>)},
     excludeRoles : {None}]

ChainConfigs ==
    [defaultMiddlewares : {<<"logging">>},
     defaultRoles : SeqUpTo(RoleNames, MaxLen),
     routes : {<<r>> : r \in RoleRoutes}]
    \cup
    [defaultMiddlewares : SeqUpTo({"logging", "auth"}, MaxLen),
     defaultRoles : {<<>>},
     routes : {<<r>> : r \in MiddlewareRoutes}]

\* the names createConfiguredRouter registers besides the role check
ConfiguredNames == {"logging", "apiAuditLog", "auth"}

\* one route whose enabled and disabled lists range over the configured names
NamedRoutes ==
    [method : {"GET"}, path : {"/example"}, handler : {<<"user", ".", "get">>},
     enabled : Opt(SeqUpTo(ConfiguredNames, MaxLen)),
     disabled : Opt(SeqUpTo(ConfiguredNames, MaxLen - 1)),
     roles : {None},
     excludeRoles : {None}]

NamedConfigs ==
    [defaultMiddlewares : SeqUpTo(ConfiguredNames, MaxLen + 1),
     defaultRoles : {<<>>, <<"admin">>},
     routes : {<<r>> : r \in NamedRoutes}]

\* the registry createConfiguredRouter leaves behind, without and with auth
ConfiguredRegistries ==
    { [name \in {"logging", "apiAuditLog"} |->
          [logging |-> "loggingMiddleware",
           apiAuditLog |-> "apiAuditLog"][name]],
      [name \in {"logging", "apiAuditLog", "auth", "roleCheck"} |->
          [logging |-> "loggingMiddleware", apiAuditLog |-> "apiAuditLog",
           auth |-> "authMiddleware", roleCheck |-> "roleMiddleware"][name]] }

----------------------------------------------------------------------------
(* Cron locks: the state of the lock backend and of the instances *)

\* the application instances that run the same schedule (pm2 cluster)
Instances == 1..NumInstances

Backends == {"redis", "postgres", "mysql", "file"}

\* no entry for the lockKey: no Redis key, no cron_locks row, no lock file
NoLock == [held |-> FALSE, instanceId |-> 0, expiresAt |-> 0]

\* an instance between two firings of the schedule: where the callback
\* stands, the expiry it asked for, the expiry it read from the lock file,
\* whether acquireLock returned true, whether the task was run and
\* releaseLock called, and how the callback ended
IdleInstance == [pc |-> "idle", expiresAt |-> 0, lockData |-> 0,
                 acquired |-> FALSE, ran |-> FALSE, released |-> FALSE,
                 outcome |-> "none"]

\* the entry instance i writes at time t
LockOf(i, t) == [held |-> TRUE, instanceId |-> i, expiresAt |-> t + Ttl]

\* a Redis key set with PX is gone once its time has passed; a row and a
\* file stay until they are deleted
RedisHas(store, t) == store.held /\ t < store.expiresAt

\* mutant: SET without NX overwrites the key
RedisSet_NoNX(store, i, t) == [ok |-> TRUE, store |-> LockOf(i, t)]

\* redis.set(lockKey, instanceId, 'PX', ttl, 'NX'): 'OK' and the key set when
\* the key is absent, null otherwise
RedisSet(store, i, t) ==
    IF RedisHas(store, t) THEN [ok |-> FALSE, store |-> store]
    ELSE [ok |-> TRUE, store |-> LockOf(i, t)]

\* redis.del / DELETE ... WHERE lock_key / fs.remove: the entry of the
\* lockKey is deleted, whoever wrote it
Released(store, i) == NoLock

\* acquireLock returned false: the callback logs and returns
Skip(inst) == [inst EXCEPT !.pc = "idle", !.outcome = "skipped"]

\* acquireLock returned true: the callback goes on to the task
Acquire(inst, expiresAt) ==
    [inst EXCEPT !.pc = "task", !.acquired = TRUE, !.expiresAt = expiresAt]

\* mutant: no finally block; a rejected task ends the callback
AfterTask_NoFinally(inst, resolved) ==
    IF resolved
    THEN [inst EXCEPT !.pc = "release", !.ran = TRUE, !.outcome = "completed"]
    ELSE [inst EXCEPT !.pc = "idle", !.ran = TRUE, !.outcome = "raised"]

\* try { await task() } catch { log } finally { releaseLock }: resolved or
\* rejected, the callback goes on to releaseLock
AfterTask(inst, resolved) ==
    [inst EXCEPT !.pc = "release", !.ran = TRUE,
                 !.outcome = IF resolved THEN "completed" ELSE "failed"]

----------------------------------------------------------------------------
(* Operations *)

\* a call record: what was called, whether it threw and with what message,
\* what it returned, and the chain, report or routing surface it produced
NoReport == [valid |-> FALSE, errors |-> <<>>]

NoCall == [op |-> "new", route |-> 0, threw |-> FALSE, error |-> <<>>,
           returns |-> "nothing", chain |-> <<>>, report |-> NoReport,
           surface |-> <<>>]

\* nothing remembered yet
NoMemory == [route |-> 0, threw |-> FALSE, error |-> <<>>, chain |-> <<>>,
             builtOther |-> FALSE, validated |-> FALSE, again |-> FALSE]

\* no register call observed yet
NoRequest == [kind |-> "none", name |-> "", middleware |-> "",
              controller |-> {}, replaced |-> FALSE]

\* the cron module of an application that is looked at for its router only
CronUnused ==
    /\ backend = "file"
    /\ lockStore = NoLock
    /\ now = 0
    /\ instances = [i \in Instances |-> IdleInstance]

\* constructor(config)
Init ==
    /\ config \in TableConfigs
    /\ middlewareRegistry = EmptyMap
    /\ controllerRegistry = [n \in {} |-> {}]
    /\ last = NoCall
    /\ remembered = NoMemory
    /\ requested = NoRequest
    /\ CronUnused

InitChain ==
    /\ config \in ChainConfigs
    /\ middlewareRegistry = EmptyMap
    /\ controllerRegistry = [n \in {} |-> {}]
    /\ last = NoCall
    /\ remembered = NoMemory
    /\ requested = NoRequest
    /\ CronUnused

\* mutant: the chain is built on defaultMiddlewares itself, not on a copy, so
\* the push of the enabled names lands in the config (filter makes a new array)
ConfigAfterBuild_PushOnDefaults(route) ==
    IF Truthy(route.disabled) \/ ~Truthy(route.enabled) THEN config
    ELSE [config EXCEPT !.defaultMiddlewares = @ \o route.enabled.value]

\* the config once buildMiddlewareChain is over: the lists it filters, extends
\* and rebinds are spread copies of defaultMiddlewares and defaultRoles, and
\* no field of the route is assigned
ConfigAfterBuild(route) == config

\* the config once validate is over: the names it walks are a fresh array of
\* defaultMiddlewares and route.enabled
ConfigAfterValidate == config

RegisterMiddleware(name, middleware) ==
    /\ middlewareRegistry' = MapSet(middlewareRegistry, name, middleware)
    /\ last' = [NoCall EXCEPT !.op = "registerMiddleware", !.returns = "this"]
    /\ UNCHANGED <<config, controllerRegistry>>

RegisterController(name, controller) ==
    /\ controllerRegistry' = MapSet(controllerRegistry, name, controller)
    /\ last' = [NoCall EXCEPT !.op = "registerController", !.returns = "this"]
    /\ UNCHANGED <<config, middlewareRegistry>>

CallBuildMiddlewareChain(i) ==
    /\ LET r == BuildMiddlewareChain(config.routes[i])
       IN  last' = [NoCall EXCEPT !.op = "buildMiddlewareChain", !.route = i,
                       !.threw = r.threw, !.error = r.error,
                       !.returns = IF r.threw THEN "nothing" ELSE "chain",
                       !.chain = r.value]
    /\ config' = ConfigAfterBuild(config.routes[i])
    /\ UNCHANGED <<middlewareRegistry, controllerRegistry>>

CallValidate ==
    /\ last' = [NoCall EXCEPT !.op = "validate",
                    !.threw = ValidateOutcome.threw,
                    !.error = ValidateOutcome.error,
                    !.returns = IF ValidateOutcome.threw THEN "nothing"
                                ELSE "report",
                    !.report = IF ValidateOutcome.threw THEN NoReport
                               ELSE Validate]
    /\ config' = ConfigAfterValidate
    /\ UNCHANGED <<middlewareRegistry, controllerRegistry>>

ApplyToExpress ==
    /\ last' = [NoCall EXCEPT !.op = "applyToExpress",
                    !.threw = Apply.threw, !.error = Apply.error,
                    !.returns = IF Apply.threw THEN "nothing" ELSE "router",
                    !.surface = Apply.surface]
    /\ UNCHANGED <<config, middlewareRegistry, controllerRegistry>>

ApplyToHono ==
    /\ last' = [NoCall EXCEPT !.op = "applyToHono",
                    !.threw = Apply.threw, !.error = Apply.error,
                    !.returns = IF Apply.threw THEN "nothing" ELSE "app",
                    !.surface = Apply.surface]
    /\ UNCHANGED <<config, middlewareRegistry, controllerRegistry>>

Next ==
    \/ \E name \in MiddlewareNames, middleware \in MiddlewareValues :
           RegisterMiddleware(name, middleware) /\ UNCHANGED <<remembered, requested, cronVars>>
    \/ \E name \in ControllerNames, controller \in ControllerObjects :
           RegisterController(name, controller) /\ UNCHANGED <<remembered, requested, cronVars>>
    \/ \E i \in DOMAIN config.routes :
           CallBuildMiddlewareChain(i) /\ UNCHANGED <<remembered, requested, cronVars>>
    \/ CallValidate /\ UNCHANGED <<remembered, requested, cronVars>>
    \/ ApplyToExpress /\ UNCHANGED <<remembered, requested, cronVars>>
    \/ ApplyToHono /\ UNCHANGED <<remembered, requested, cronVars>>

Spec == Init /\ [][Next]_vars

NextChain ==
    \/ \E name \in MiddlewareNames, middleware \in MiddlewareValues :
           RegisterMiddleware(name, middleware) /\ UNCHANGED <<remembered, requested, cronVars>>
    \/ \E i \in DOMAIN config.routes :
           CallBuildMiddlewareChain(i) /\ UNCHANGED <<remembered, requested, cronVars>>

SpecChain == InitChain /\ [][NextChain]_vars

\* a router constructed over a config and registered as createConfiguredRouter
\* registers it
InitConfigured ==
    /\ config \in NamedConfigs
    /\ middlewareRegistry \in ConfiguredRegistries
    /\ controllerRegistry = [n \in {} |-> {}]
    /\ last = NoCall
    /\ remembered = NoMemory
    /\ requested = NoRequest
    /\ CronUnused

NextConfigured ==
    \E i \in DOMAIN config.routes :
        CallBuildMiddlewareChain(i) /\ UNCHANGED <<remembered, requested, cronVars>>

SpecConfigured == InitConfigured /\ [][NextConfigured]_vars

----------------------------------------------------------------------------
(* createThreadSafeCron and the lock adapters *)

\* the router of an application that is looked at for its cron jobs only
RouterUnused ==
    /\ config = [defaultMiddlewares |-> <<>>, defaultRoles |-> <<>>,
                 routes |-> <<>>]
    /\ middlewareRegistry = EmptyMap
    /\ controllerRegistry = [n \in {} |-> {}]
    /\ last = NoCall
    /\ remembered = NoMemory
    /\ requested = NoRequest

\* the steps below leave the router alone
CronStep == UNCHANGED <<routerVars, remembered, requested, backend>>

\* the schedule fires on instance i: the callback calls acquireLock
Fire(i) ==
    /\ instances[i].pc = "idle"
    /\ instances' = [instances EXCEPT ![i] =
           [IdleInstance EXCEPT
               !.pc = CASE backend = "redis" -> "set"
                        [] backend = "file" -> "pathExists"
                        [] OTHER -> "connect",
               !.expiresAt = IF backend = "file" THEN now + Ttl ELSE 0]]
    /\ UNCHANGED <<lockStore, now>>
    /\ CronStep

\* Redis acquireLock: one SET NX PX; an error is caught and gives false
RedisAcquire(i, fails) ==
    /\ instances[i].pc = "set"
    /\ LET r == RedisSet(lockStore, i, now)
       IN  IF fails \/ ~r.ok
           THEN /\ instances' = [instances EXCEPT ![i] = Skip(@)]
                /\ UNCHANGED lockStore
           ELSE /\ instances' = [instances EXCEPT ![i] = Acquire(@, now + Ttl)]
                /\ lockStore' = r.store
    /\ UNCHANGED now
    /\ CronStep

\* Postgres / MySQL acquireLock: pool.connect() is awaited before the try
\* block, so a failure to connect is thrown to the callback, which rejects
Connect(i, fails) ==
    /\ instances[i].pc = "connect"
    /\ instances' = [instances EXCEPT ![i] =
           IF fails THEN [@ EXCEPT !.pc = "idle", !.outcome = "raised"]
           ELSE [@ EXCEPT !.pc = "insert", !.expiresAt = now + Ttl]]
    /\ UNCHANGED <<lockStore, now>>
    /\ CronStep

\* INSERT ... ON CONFLICT DO NOTHING / INSERT IGNORE
Insert(i, fails) ==
    /\ instances[i].pc = "insert"
    /\ IF fails
       THEN /\ instances' = [instances EXCEPT ![i] = Skip(@)]
            /\ UNCHANGED lockStore
       ELSE IF ~lockStore.held
       THEN /\ lockStore' = [held |-> TRUE, instanceId |-> i,
                             expiresAt |-> instances[i].expiresAt]
            /\ instances' = [instances EXCEPT ![i] = Acquire(@, @.expiresAt)]
       ELSE /\ instances' = [instances EXCEPT ![i].pc = "deleteExpired"]
            /\ UNCHANGED lockStore
    /\ UNCHANGED now
    /\ CronStep

\* DELETE ... WHERE lock_key = $1 AND expires_at < NOW()
DeleteExpired(i, fails) ==
    /\ instances[i].pc = "deleteExpired"
    /\ IF ~fails /\ lockStore.held /\ lockStore.expiresAt < now
       THEN /\ lockStore' = NoLock
            /\ instances' = [instances EXCEPT ![i].pc = "retry"]
       ELSE /\ instances' = [instances EXCEPT ![i] = Skip(@)]
            /\ UNCHANGED lockStore
    /\ UNCHANGED now
    /\ CronStep

\* the second INSERT, after an expired row was deleted
RetryInsert(i, fails) ==
    /\ instances[i].pc = "retry"
    /\ IF ~fails /\ ~lockStore.held
       THEN /\ lockStore' = [held |-> TRUE, instanceId |-> i,
                             expiresAt |-> instances[i].expiresAt]
            /\ instances' = [instances EXCEPT ![i] = Acquire(@, @.expiresAt)]
       ELSE /\ instances' = [instances EXCEPT ![i] = Skip(@)]
            /\ UNCHANGED lockStore
    /\ UNCHANGED now
    /\ CronStep

\* file acquireLock: await fs.pathExists(lockPath)
PathExists(i) ==
    /\ instances[i].pc = "pathExists"
    /\ instances' = [instances EXCEPT ![i].pc =
           IF lockStore.held THEN "readJSON" ELSE "writeJSON"]
    /\ UNCHANGED <<lockStore, now>>
    /\ CronStep

\* await fs.readJSON(lockPath), then lockData.expiresAt < Date.now(); a file
\* that is gone by now makes readJSON throw, which is caught and gives false
ReadJSON(i, fails) ==
    /\ instances[i].pc = "readJSON"
    /\ instances' = [instances EXCEPT ![i] =
           IF fails \/ ~lockStore.held THEN Skip(@)
           ELSE IF lockStore.expiresAt < now
           THEN [@ EXCEPT !.pc = "remove", !.lockData = lockStore.expiresAt]
           ELSE Skip([@ EXCEPT !.lockData = lockStore.expiresAt])]
    /\ UNCHANGED <<lockStore, now>>
    /\ CronStep

\* await fs.remove(lockPath): removes whatever file is there now
Remove(i, fails) ==
    /\ instances[i].pc = "remove"
    /\ IF fails
       THEN /\ instances' = [instances EXCEPT ![i] = Skip(@)]
            /\ UNCHANGED lockStore
       ELSE /\ lockStore' = NoLock
            /\ instances' = [instances EXCEPT ![i].pc = "writeJSON"]
    /\ UNCHANGED now
    /\ CronStep

\* await fs.writeJSON(lockPath, {instanceId, expiresAt}, { flag: 'wx' }):
\* EEXIST when a file is there, which is caught and gives false
WriteJSON(i, fails) ==
    /\ instances[i].pc = "writeJSON"
    /\ IF fails \/ lockStore.held
       THEN /\ instances' = [instances EXCEPT ![i] = Skip(@)]
            /\ UNCHANGED lockStore
       ELSE /\ lockStore' = [held |-> TRUE, instanceId |-> i,
                             expiresAt |-> instances[i].expiresAt]
            /\ instances' = [instances EXCEPT ![i] = Acquire(@, @.expiresAt)]
    /\ UNCHANGED now
    /\ CronStep

\* await task() settles: it resolves or it rejects
TaskSettles(i, resolved) ==
    /\ instances[i].pc = "task"
    /\ instances' = [instances EXCEPT ![i] = AfterTask(@, resolved)]
    /\ UNCHANGED <<lockStore, now>>
    /\ CronStep

\* await releaseLock(lockKey): the delete, or an error that is caught
ReleaseLock(i, fails) ==
    /\ instances[i].pc = "release"
    /\ lockStore' = IF fails THEN lockStore ELSE Released(lockStore, i)
    /\ instances' = [instances EXCEPT ![i] =
           [@ EXCEPT !.pc = "idle", !.released = TRUE]]
    /\ UNCHANGED now
    /\ CronStep

\* time passes
Tick ==
    /\ now < MaxTime
    /\ now' = now + 1
    /\ UNCHANGED <<lockStore, instances>>
    /\ CronStep

\* time passes, and no task is still under way when its lock runs out
TickWithinTtl ==
    /\ \A i \in Instances :
           instances[i].pc \in {"task", "release"}
               => now + 1 < instances[i].expiresAt
    /\ Tick

\* the instances start with no lock entry, on any backend
InitCron ==
    /\ backend \in Backends
    /\ lockStore = NoLock
    /\ now = 0
    /\ instances = [i \in Instances |-> IdleInstance]
    /\ RouterUnused

NextCron ==
    \/ \E i \in Instances : Fire(i)
    \/ \E i \in Instances, fails \in BOOLEAN : RedisAcquire(i, fails)
    \/ \E i \in Instances, fails \in BOOLEAN : Connect(i, fails)
    \/ \E i \in Instances, fails \in BOOLEAN : Insert(i, fails)
    \/ \E i \in Instances, fails \in BOOLEAN : DeleteExpired(i, fails)
    \/ \E i \in Instances, fails \in BOOLEAN : RetryInsert(i, fails)
    \/ \E i \in Instances : PathExists(i)
    \/ \E i \in Instances, fails \in BOOLEAN : ReadJSON(i, fails)
    \/ \E i \in Instances, fails \in BOOLEAN : Remove(i, fails)
    \/ \E i \in Instances, fails \in BOOLEAN : WriteJSON(i, fails)
    \/ \E i \in Instances, resolved \in BOOLEAN : TaskSettles(i, resolved)
    \/ \E i \in Instances, fails \in BOOLEAN : ReleaseLock(i, fails)
    \/ Tick

SpecCron == InitCron /\ [][NextCron]_vars

\* a task that was started settles, and the awaited releaseLock completes:
\* the event loop runs every continuation that is ready
CronFairness ==
    \A i \in Instances :
        /\ WF_vars(\E resolved \in BOOLEAN : TaskSettles(i, resolved))
        /\ WF_vars(\E fails \in BOOLEAN : ReleaseLock(i, fails))

\* the Redis backend, with every task finishing within its ttl
InitRedis ==
    /\ backend = "redis"
    /\ lockStore = NoLock
    /\ now = 0
    /\ instances = [i \in Instances |-> IdleInstance]
    /\ RouterUnused

NextRedis ==
    \/ \E i \in Instances : Fire(i)
    \/ \E i \in Instances, fails \in BOOLEAN : RedisAcquire(i, fails)
    \/ \E i \in Instances, resolved \in BOOLEAN : TaskSettles(i, resolved)
    \/ \E i \in Instances, fails \in BOOLEAN : ReleaseLock(i, fails)
    \/ TickWithinTtl

SpecRedis == InitRedis /\ [][NextRedis]_vars

\* the Redis backend, with tasks that take any time
NextCronLive ==
    \/ \E i \in Instances : Fire(i)
    \/ \E i \in Instances, fails \in BOOLEAN : RedisAcquire(i, fails)
    \/ \E i \in Instances, resolved \in BOOLEAN : TaskSettles(i, resolved)
    \/ \E i \in Instances, fails \in BOOLEAN : ReleaseLock(i, fails)
    \/ Tick

SpecCronLive == InitRedis /\ [][NextCronLive]_vars /\ CronFairness

\* the file backend at some time, with no lock file or with one that an
\* instance wrote earlier, and every instance about to call acquireLock once
InitFileAcquire ==
    /\ backend = "file"
    /\ now \in 0..MaxTime
    /\ lockStore \in {NoLock} \cup {LockOf(i, t) : i \in Instances, t \in 0..now}
    /\ instances = [i \in Instances |-> IdleInstance]
    /\ RouterUnused

NextFileAcquire ==
    \/ \E i \in Instances : instances[i].outcome = "none" /\ Fire(i)
    \/ \E i \in Instances : PathExists(i)
    \/ \E i \in Instances, fails \in BOOLEAN : ReadJSON(i, fails)
    \/ \E i \in Instances, fails \in BOOLEAN : Remove(i, fails)
    \/ \E i \in Instances, fails \in BOOLEAN : WriteJSON(i, fails)

SpecFileAcquire == InitFileAcquire /\ [][NextFileAcquire]_vars

\* the RouteMiddlewareConfig that says what a route definition says
LegacyConfigs(route) ==
    {[present |-> TRUE, include |-> route.enabled, exclude |-> route.disabled,
      roles |-> route.roles, excludeRole |-> route.excludeRoles]}

CallRouteBuilderChain(i) ==
    /\ \E cfg \in LegacyConfigs(config.routes[i]) :
           LET r == RouteBuilderChain(cfg)
           IN  last' = [NoCall EXCEPT !.op = "RouteBuilder.buildMiddlewareChain",
                           !.route = i, !.threw = r.threw, !.error = r.error,
                           !.returns = IF r.threw THEN "nothing" ELSE "chain",
                           !.chain = r.value]
    /\ UNCHANGED <<config, middlewareRegistry, controllerRegistry>>

CallRouteBuilderChainNoConfig ==
    /\ LET r == RouteBuilderChain(NoConfig)
       IN  last' = [NoCall EXCEPT !.op = "RouteBuilder.buildMiddlewareChain",
                       !.threw = r.threw, !.error = r.error,
                       !.returns = IF r.threw THEN "nothing" ELSE "chain",
                       !.chain = r.value]
    /\ UNCHANGED <<config, middlewareRegistry, controllerRegistry>>

CallRouteBuilderRoute(i) ==
    /\ \E cfg \in LegacyConfigs(config.routes[i]) :
           LET r == RouteBuilderRoute("handler", cfg)
           IN  last' = [NoCall EXCEPT !.op = "RouteBuilder.route",
                           !.route = i, !.threw = r.threw, !.error = r.error,
                           !.returns = IF r.threw THEN "nothing" ELSE "chain",
                           !.chain = r.value]
    /\ UNCHANGED <<config, middlewareRegistry, controllerRegistry>>

NextLegacy ==
    \/ \E name \in MiddlewareNames, middleware \in MiddlewareValues :
           RegisterMiddleware(name, middleware)
               /\ UNCHANGED <<remembered, requested, cronVars>>
    \/ \E i \in DOMAIN config.routes :
           CallRouteBuilderChain(i)
               /\ UNCHANGED <<remembered, requested, cronVars>>
    \/ CallRouteBuilderChainNoConfig
           /\ UNCHANGED <<remembered, requested, cronVars>>
    \/ \E i \in DOMAIN config.routes :
           CallRouteBuilderRoute(i)
               /\ UNCHANGED <<remembered, requested, cronVars>>

SpecLegacy == InitChain /\ [][NextLegacy]_vars

\* globalDefaults of the generated router config, without and with auth
GlobalDefaults(hasAuth) ==
    [middlewares |-> IF hasAuth THEN <<"auth", "apiAuditLog">>
                     ELSE <<"apiAuditLog">>,
     roles |-> <<>>]

\* what callers hand to createConfiguredRouter: both defaults are optional
CreateInputs ==
    [defaultMiddlewares : {None, Some(<<"logging">>)},
     defaultRoles : {None, Some(<<"admin">>)},
     routes : RouteTables \cup {<<>>}]

\* new DeclarativeRouter({ ... || globalDefaults ... })
ConstructedConfig(input, hasAuth) ==
    [defaultMiddlewares |-> IF Truthy(input.defaultMiddlewares)
                            THEN input.defaultMiddlewares.value
                            ELSE GlobalDefaults(hasAuth).middlewares,
     defaultRoles |-> IF Truthy(input.defaultRoles)
                      THEN input.defaultRoles.value
                      ELSE GlobalDefaults(hasAuth).roles,
     routes |-> input.routes]

\* the dr.registerMiddleware calls of createConfiguredRouter
ConfiguredRegistry(hasAuth) ==
    LET logging == MapSet(EmptyMap, "logging", "loggingMiddleware")
        audit == MapSet(logging, "apiAuditLog", "apiAuditLog")
    IN  IF hasAuth
        THEN MapSet(MapSet(audit, "auth", "authMiddleware"),
                    "roleCheck", "roleMiddleware")
        ELSE audit

\* `Route errors: ${validation.errors.join(', ')}`
JoinedErrors(errors) == <<"Route errors", errors>>

\* mutant: the router is returned whatever the report says
CreateOutcome_Ungated(report) == Returned("dr")

\* if (!validation.valid) throw ...; return dr
CreateOutcome(report) ==
    IF ~report.valid
    THEN [threw |-> TRUE, error |-> JoinedErrors(report.errors),
          value |-> "nothing"]
    ELSE Returned("dr")

\* no router has been created yet
InitCreate ==
    /\ config = [defaultMiddlewares |-> <<>>, defaultRoles |-> <<>>,
                 routes |-> <<>>]
    /\ middlewareRegistry = EmptyMap
    /\ controllerRegistry = [n \in {} |-> {}]
    /\ last = NoCall
    /\ remembered = NoMemory
    /\ requested = NoRequest
    /\ CronUnused

\* createConfiguredRouter(input), called once: construct, register, validate,
\* then throw or return the router
CreateConfiguredRouter(input, hasAuth) ==
    /\ last.op = "new"
    /\ config' = ConstructedConfig(input, hasAuth)
    /\ middlewareRegistry' = ConfiguredRegistry(hasAuth)
    /\ controllerRegistry' = [n \in {} |-> {}]
    /\ last' = [NoCall EXCEPT !.op = "createConfiguredRouter",
                    !.threw = CreateOutcome(Validate').threw,
                    !.error = CreateOutcome(Validate').error,
                    !.returns = CreateOutcome(Validate').value,
                    !.report = Validate']

\* the caller holds a router that createConfiguredRouter returned
RouterObtained ==
    \/ last.op = "createConfiguredRouter" /\ last.returns = "dr"
    \/ last.op \in {"applyToExpress", "applyToHono"}

NextCreate ==
    \/ \E input \in CreateInputs, hasAuth \in BOOLEAN :
           CreateConfiguredRouter(input, hasAuth)
               /\ UNCHANGED <<remembered, requested, cronVars>>
    \/ RouterObtained /\ ApplyToExpress
                      /\ UNCHANGED <<remembered, requested, cronVars>>
    \/ RouterObtained /\ ApplyToHono
                      /\ UNCHANGED <<remembered, requested, cronVars>>

SpecCreate == InitCreate /\ [][NextCreate]_vars

\* a router over a one-route table on which every operation is called, in any
\* order
InitRegistry ==
    /\ config \in {c \in TableConfigs : Len(c.routes) = 1}
    /\ middlewareRegistry = EmptyMap
    /\ controllerRegistry = [n \in {} |-> {}]
    /\ last = NoCall
    /\ remembered = NoMemory
    /\ requested = NoRequest
    /\ CronUnused

\* the arguments of a register call, and whether the name had another value
RequestMiddleware(name, middleware) ==
    requested' = [NoRequest EXCEPT !.kind = "middleware", !.name = name,
                      !.middleware = middleware,
                      !.replaced = /\ Has(middlewareRegistry, name)
                                   /\ middlewareRegistry[name] # middleware]

RequestController(name, controller) ==
    requested' = [NoRequest EXCEPT !.kind = "controller", !.name = name,
                      !.controller = controller,
                      !.replaced = /\ Has(controllerRegistry, name)
                                   /\ controllerRegistry[name] # controller]

NextRegistry ==
    \/ \E name \in MiddlewareNames, middleware \in MiddlewareValues :
           /\ RegisterMiddleware(name, middleware)
           /\ RequestMiddleware(name, middleware)
           /\ UNCHANGED <<remembered, cronVars>>
    \/ \E name \in ControllerNames, controller \in ControllerObjects :
           /\ RegisterController(name, controller)
           /\ RequestController(name, controller)
           /\ UNCHANGED <<remembered, cronVars>>
    \/ \E i \in DOMAIN config.routes :
           /\ CallBuildMiddlewareChain(i)
           /\ requested' = NoRequest
           /\ UNCHANGED <<remembered, cronVars>>
    \/ CallValidate /\ requested' = NoRequest
                    /\ UNCHANGED <<remembered, cronVars>>
    \/ ApplyToExpress /\ requested' = NoRequest
                      /\ UNCHANGED <<remembered, cronVars>>
    \/ ApplyToHono /\ requested' = NoRequest
                   /\ UNCHANGED <<remembered, cronVars>>

SpecRegistry == InitRegistry /\ [][NextRegistry]_vars

\* the registries a router can have been given before it is validated
ReportRegistries ==
    {[name \in S |-> "f1"] : S \in SUBSET {"logging", "auth"}}

ReportControllers ==
    {[n \in {} |-> {}]} \cup {[n \in {"user"} |-> c] : c \in ControllerObjects}

\* a router with some names registered, whose config is then validated
InitReport ==
    /\ config \in TableConfigs \cup ChainConfigs
    /\ middlewareRegistry \in ReportRegistries
    /\ controllerRegistry \in ReportControllers
    /\ last = NoCall
    /\ remembered = NoMemory
    /\ requested = NoRequest
    /\ CronUnused

NextReport == CallValidate /\ UNCHANGED <<remembered, requested, cronVars>>

SpecReport == InitReport /\ [][NextReport]_vars

\* a router whose config and registries stay as they are while chains are
\* built and the config is validated, in any order
InitFixed ==
    /\ config \in TableConfigs
    /\ middlewareRegistry \in ConfiguredRegistries
    /\ controllerRegistry \in {[n \in {} |-> {}], [n \in {"user"} |-> {"get"}]}
    /\ last = NoCall
    /\ remembered = NoMemory
    /\ requested = NoRequest
    /\ CronUnused

\* the first chain build is remembered; later calls are noted as a build of
\* another route, a validation, or a build of the remembered route again
RememberBuild(i) ==
    remembered' =
        IF remembered.route = 0
        THEN [NoMemory EXCEPT !.route = i, !.threw = last'.threw,
                              !.error = last'.error, !.chain = last'.chain]
        ELSE IF i = remembered.route
        THEN [remembered EXCEPT
                  !.again = @ \/ (remembered.builtOther /\ remembered.validated)]
        ELSE [remembered EXCEPT !.builtOther = TRUE]

RememberValidate ==
    remembered' = IF remembered.route = 0 THEN remembered
                  ELSE [remembered EXCEPT !.validated = TRUE]

NextFixed ==
    \/ \E i \in DOMAIN config.routes :
           CallBuildMiddlewareChain(i) /\ RememberBuild(i)
               /\ UNCHANGED <<requested, cronVars>>
    \/ CallValidate /\ RememberValidate /\ UNCHANGED <<requested, cronVars>>

SpecFixed == InitFixed /\ [][NextFixed]_vars

----------------------------------------------------------------------------
(* Vocabulary of the properties *)

IsApply == last.op \in {"applyToExpress", "applyToHono"}
IsBuild == last.op = "buildMiddlewareChain"
IsValidate == last.op = "validate"

\* the message createConfiguredRouter raises for a failed validation
AggregatedError(errors) == <<"Route errors", errors>>

\* the handler reference resolves: controller registered, method present
HandlerResolves(route) ==
    /\ ControllerNameOf(route.handler) \in DOMAIN controllerRegistry
    /\ MethodNameOf(route.handler)
           \in controllerRegistry[ControllerNameOf(route.handler)]

\* the references of a route to names that are not registered, counted
\* over defaultMiddlewares followed by the route's enabled list
Candidates(route) == config.defaultMiddlewares \o OrEmpty(route.enabled)
MissingReferences(route) ==
    {i \in DOMAIN Candidates(route) :
        Candidates(route)[i] \notin DOMAIN middlewareRegistry}

RECURSIVE UnresolvedUpTo(_)
UnresolvedUpTo(n) ==
    IF n = 0 THEN 0
    ELSE UnresolvedUpTo(n - 1)
         + Cardinality(MissingReferences(config.routes[n]))
         + (IF HandlerResolves(config.routes[n]) THEN 0 ELSE 1)

\* defaultRoles with the members of excludeRoles removed, order kept
DefaultsWithoutExcluded(route) ==
    SelectSeq(config.defaultRoles,
        LAMBDA r : \A i \in DOMAIN OrEmpty(route.excludeRoles) :
                       OrEmpty(route.excludeRoles)[i] # r)

\* the chain ends with the role check called with exactly these roles
EndsWithRoleCheck(chain, roles) ==
    /\ Len(chain) > 0
    /\ "roleCheck" \in DOMAIN middlewareRegistry
    /\ chain[Len(chain)] = Invoke(middlewareRegistry["roleCheck"], roles)

\* the chain has no entry that is the result of calling a factory
NoRoleCheck(chain) == \A i \in DOMAIN chain : ~chain[i].applied

ScenarioConfig ==
    [defaultMiddlewares |-> <<"logging">>,
     defaultRoles |-> <<>>,
     routes |-> <<
       [method |-> "GET", path |-> "/public",
        handler |-> <<"user", ".", "get">>,
        enabled |-> None, disabled |-> Some(<<"logging">>), roles |-> None,
        excludeRoles |-> None],
       [method |-> "POST", path |-> "/admin",
        handler |-> <<"user", ".", "get">>,
        enabled |-> Some(<<"auth">>), disabled |-> None,
        roles |-> Some(<<"admin">>), excludeRoles |-> None] >>]

\* the chains the scenario expects for /public and /admin
ScenarioChains ==
    /\ last.route = 1 => (~last.threw /\ last.chain = <<>>)
    /\ last.route = 2 =>
         /\ ~last.threw
         /\ Len(last.chain) = 3
         /\ last.chain[1] = Callable(middlewareRegistry["logging"])
         /\ last.chain[2] = Callable(middlewareRegistry["auth"])
         /\ last.chain[3].applied
         /\ last.chain[3].arg = <<"admin">>

----------------------------------------------------------------------------
(* Properties *)

\* C1: apply on a config that validate() rejects fails with one error that
\* aggregates every validation failure and registers nothing on the surface.
C1_ApplyRefusesInvalid ==
    (IsApply /\ ~Validate.valid) =>
        /\ last.threw
        /\ last.surface = <<>>
        /\ Len(last.error) = 2
        /\ last.error = AggregatedError(Validate.errors)

\* C2: when the final role set of a route is non-empty, buildMiddlewareChain
\* either throws or returns a chain whose last entry is the roleCheck factory
\* called with exactly that role set.
C2_RoleCheckNeverDropped ==
    (IsBuild /\ Len(ChainRoles(config.routes[last.route])) > 0) =>
        \/ last.threw
        \/ EndsWithRoleCheck(last.chain, ChainRoles(config.routes[last.route]))

\* C3: when validate() reports valid=true and some route has a non-empty
\* final role set, 'roleCheck' is in the middleware registry.
C3_ValidatorRequiresRoleCheck ==
    (IsValidate /\ last.report.valid
       /\ \E i \in DOMAIN config.routes : Len(ChainRoles(config.routes[i])) > 0)
    => "roleCheck" \in DOMAIN middlewareRegistry

\* C4: when validate() accepts the config and the registries, apply does not
\* throw and registers every route: every name of every route's composed
\* middleware list is registered and every handler resolves.
C4_ValidationSoundForApply ==
    (IsApply /\ Validate.valid) =>
        /\ ~last.threw
        /\ Len(last.surface) = Len(config.routes)
        /\ \A i \in DOMAIN config.routes :
              /\ HandlerResolves(config.routes[i])
              /\ \A k \in DOMAIN ChainMiddlewares(config.routes[i]) :
                    ChainMiddlewares(config.routes[i])[k]
                        \in DOMAIN middlewareRegistry
              /\ last.surface[i].path = config.routes[i].path

C4_Witness ==
    /\ last.op = "applyToExpress"
    /\ Validate.valid
    /\ Len(config.routes) >= 2
    /\ Len(last.surface) = Len(config.routes)
    /\ \E i \in DOMAIN config.routes : Truthy(config.routes[i].enabled)

C6_ValidatorBatchesErrors ==
    IsValidate =>
        /\ Len(last.report.errors) = UnresolvedUpTo(Len(config.routes))
        /\ \A i \in DOMAIN config.routes :
              \A k \in MissingReferences(config.routes[i]) :
                 Includes(last.report.errors,
                     RouteError(config.routes[i],
                         MiddlewareNotRegistered(Candidates(config.routes[i])[k])))
        /\ ( /\ Len(config.routes) = 3
             /\ \A i \in DOMAIN config.routes :
                   /\ HandlerResolves(config.routes[i])
                   /\ Cardinality(MissingReferences(config.routes[i])) = 1 )
           => (Len(last.report.errors) = 3 /\ ~last.report.valid)

C6_Witness ==
    /\ IsValidate
    /\ Len(config.routes) = 3
    /\ \A i \in DOMAIN config.routes :
          /\ HandlerResolves(config.routes[i])
          /\ Cardinality(MissingReferences(config.routes[i])) = 1
          /\ Truthy(config.routes[i].enabled)
    /\ "logging" \in DOMAIN middlewareRegistry
    /\ Len(last.report.errors) = 3

\* C7: validate() returns valid=true exactly when its error list is empty,
\* and that is exactly when every route's handler resolves and every name of
\* defaultMiddlewares and of the route's enabled list is registered.
C7_ValidIffAllResolve ==
    IsValidate =>
        /\ last.report.valid <=> (last.report.errors = <<>>)
        /\ last.report.valid <=>
             \A i \in DOMAIN config.routes :
                /\ HandlerResolves(config.routes[i])
                /\ \A k \in DOMAIN config.defaultMiddlewares :
                      config.defaultMiddlewares[k] \in DOMAIN middlewareRegistry
                /\ \A k \in DOMAIN OrEmpty(config.routes[i].enabled) :
                      OrEmpty(config.routes[i].enabled)[k]
                          \in DOMAIN middlewareRegistry

C7_Witness ==
    /\ IsValidate
    /\ last.report.valid
    /\ last.report.errors = <<>>
    /\ Len(config.routes) >= 2
    /\ \E i \in DOMAIN config.routes : Truthy(config.routes[i].enabled)

\* C8: a default middleware that a route disables and that is not registered
\* is still reported for that route by validate(), although the route's
\* composed middleware list does not contain it.
C8_ValidatorChecksPreDisableUnion ==
    IsValidate =>
        \A i \in DOMAIN config.routes :
          \A k \in DOMAIN config.defaultMiddlewares :
            LET route == config.routes[i]
                name == config.defaultMiddlewares[k]
            IN  ( /\ Truthy(route.disabled)
                  /\ Includes(route.disabled.value, name)
                  /\ name \notin DOMAIN middlewareRegistry )
                => /\ Includes(last.report.errors,
                        RouteError(route, MiddlewareNotRegistered(name)))
                   /\ ~last.report.valid
                   /\ ~Includes(OrEmpty(route.enabled), name)
                        => ~Includes(ChainMiddlewares(route), name)

C8_Witness ==
    /\ IsValidate
    /\ "logging" \notin DOMAIN middlewareRegistry
    /\ \E i \in DOMAIN config.routes :
          /\ Truthy(config.routes[i].disabled)
          /\ Includes(config.routes[i].disabled.value, "logging")
          /\ HandlerResolves(config.routes[i])
          /\ ~Includes(ChainMiddlewares(config.routes[i]), "logging")
          /\ last.report.errors =
               <<RouteError(config.routes[i], MiddlewareNotRegistered("logging"))>>

\* C9: for a route with a non-empty roles list, the role set handed to the
\* role-check factory is exactly route.roles, whatever defaultRoles and
\* route.excludeRoles are.
C9_RoleReplaceWins ==
    LET route == config.routes[last.route]
    IN  (IsBuild /\ ~last.threw /\ Truthy(route.roles)
           /\ Len(route.roles.value) > 0
           /\ "roleCheck" \in DOMAIN middlewareRegistry)
        => EndsWithRoleCheck(last.chain, route.roles.value)

C9_Witness ==
    /\ IsBuild
    /\ ~last.threw
    /\ config.defaultRoles = <<"admin">>
    /\ config.routes[1].roles = Some(<<"editor">>)
    /\ config.routes[1].excludeRoles = Some(<<"admin">>)
    /\ EndsWithRoleCheck(last.chain, <<"editor">>)

\* C10: for a route whose roles field is absent or an empty list, the final
\* role set is defaultRoles without the members of excludeRoles, in order:
\* the chain ends with the role check for that set when it is non-empty and
\* has no role check when it is empty.
C10_EmptyRolesKeepDefaults ==
    LET route == config.routes[last.route]
        expected == DefaultsWithoutExcluded(route)
    IN  (IsBuild /\ ~last.threw /\ OrEmpty(route.roles) = <<>>
           /\ "roleCheck" \in DOMAIN middlewareRegistry)
        => IF Len(expected) > 0
           THEN EndsWithRoleCheck(last.chain, expected)
           ELSE NoRoleCheck(last.chain)

----------------------------------------------------------------------------
(* Composition of the named part of a chain *)

\* names with every entry that occurs in removed taken out, order kept
RECURSIVE Without(_, _)
Without(names, removed) ==
    IF names = <<>> THEN <<>>
    ELSE IF \E k \in DOMAIN removed : removed[k] = Head(names)
         THEN Without(Tail(names), removed)
         ELSE <<Head(names)>> \o Without(Tail(names), removed)

\* the chain's first Len(names) entries are the registered values of names
StartsWithNamed(chain, names) ==
    /\ Len(chain) >= Len(names)
    /\ \A k \in DOMAIN names :
           /\ names[k] \in DOMAIN middlewareRegistry
           /\ chain[k] = Callable(middlewareRegistry[names[k]])

\* C11: a returned chain starts with the default middlewares that the route
\* does not disable, each once per occurrence and in the order of
\* defaultMiddlewares; disabling removes entries and never reorders them.
C11_DisableRemovesNeverReorders ==
    (IsBuild /\ ~last.threw) =>
        StartsWithNamed(last.chain,
            Without(config.defaultMiddlewares,
                    OrEmpty(config.routes[last.route].disabled)))

\* defaults [logging, auth, apiAuditLog] with auth disabled give
\* [logging, apiAuditLog]
C11_Witness ==
    /\ IsBuild /\ ~last.threw
    /\ config.defaultMiddlewares = <<"logging", "auth", "apiAuditLog">>
    /\ config.routes[last.route].disabled = Some(<<"auth">>)
    /\ config.routes[last.route].enabled = None
    /\ Len(last.chain) >= 2
    /\ last.chain[1] = Callable("loggingMiddleware")
    /\ last.chain[2] = Callable("apiAuditLog")

\* C12: the named part of a returned chain, before any role check, is the
\* defaults that survive the disable filter followed by route.enabled in the
\* order given: nothing is deduplicated and the disable filter is not applied
\* to the enabled names.
C12_EnableAppendsAfterFilteredDefaults ==
    (IsBuild /\ ~last.threw) =>
        LET route == config.routes[last.route]
            names == Without(config.defaultMiddlewares, OrEmpty(route.disabled))
                         \o OrEmpty(route.enabled)
        IN  /\ StartsWithNamed(last.chain, names)
            /\ \A k \in DOMAIN last.chain : k > Len(names) => last.chain[k].applied
            /\ \A k \in DOMAIN names : ~last.chain[k].applied

\* a disabled default that is enabled again, and a surviving default that is
\* enabled a second time, both stay in the chain
C12_Witness ==
    /\ IsBuild /\ ~last.threw
    /\ config.defaultMiddlewares = <<"logging", "apiAuditLog">>
    /\ config.routes[last.route].disabled = Some(<<"logging">>)
    /\ config.routes[last.route].enabled = Some(<<"logging", "apiAuditLog">>)
    /\ Len(last.chain) >= 3
    /\ last.chain[1] = Callable("apiAuditLog")
    /\ last.chain[2] = Callable("loggingMiddleware")
    /\ last.chain[3] = Callable("apiAuditLog")

\* C13: when a route's disabled and enabled lists are both empty or absent,
\* a returned chain is defaultMiddlewares name for name and in order,
\* followed by at most one role-check entry.
C13_DefaultPreservation ==
    LET route == config.routes[last.route]
        defaults == config.defaultMiddlewares
    IN  (/\ IsBuild /\ ~last.threw
         /\ OrEmpty(route.disabled) = <<>>
         /\ OrEmpty(route.enabled) = <<>>)
        => /\ Len(last.chain) \in {Len(defaults), Len(defaults) + 1}
           /\ \A k \in DOMAIN defaults :
                  last.chain[k] = Callable(middlewareRegistry[defaults[k]])
           /\ Len(last.chain) = Len(defaults) + 1
                  => last.chain[Len(last.chain)].applied

\* a default named twice, present but empty lists, and a role check at the end
C13_Witness ==
    /\ IsBuild /\ ~last.threw
    /\ config.defaultMiddlewares = <<"logging", "auth", "logging">>
    /\ config.routes[last.route].disabled = Some(<<>>)
    /\ config.routes[last.route].enabled = Some(<<>>)
    /\ Len(last.chain) = 4
    /\ last.chain[4].applied

----------------------------------------------------------------------------
(* Repeated builds and side effects *)

C17_NoSideEffects ==
    [][(last'.op \in {"validate", "buildMiddlewareChain"}) =>
           /\ middlewareRegistry' = middlewareRegistry
           /\ controllerRegistry' = controllerRegistry
           /\ config'.defaultMiddlewares = config.defaultMiddlewares
           /\ config'.defaultRoles = config.defaultRoles
           /\ config'.routes = config.routes]_vars

\* a chain was built for a route that enables a name, disables nothing and
\* replaces the roles, with every name registered
C17_Witness ==
    /\ IsBuild /\ ~last.threw
    /\ Truthy(config.routes[last.route].enabled)
    /\ ~Truthy(config.routes[last.route].disabled)
    /\ Truthy(config.routes[last.route].roles)
    /\ config.defaultMiddlewares = <<"logging">>
    /\ Len(last.chain) = 3

----------------------------------------------------------------------------
(* Apply *)

\* C15: on a config that validates, apply makes exactly one registration
\* call per route, the i-th call for the i-th route of the config, and
\* returns the routing surface it was given.
C15_ApplyOrderPreserved ==
    (IsApply /\ Validate.valid) =>
        /\ ~last.threw
        /\ last.returns = (IF last.op = "applyToExpress" THEN "router" ELSE "app")
        /\ Len(last.surface) = Len(config.routes)
        /\ \A i \in DOMAIN config.routes :
               /\ last.surface[i].path = config.routes[i].path
               /\ last.surface[i].op = ToLowerCase(config.routes[i].method)

\* three different routes of a valid config are registered in config order
C15_Witness ==
    /\ IsApply /\ Validate.valid
    /\ Len(config.routes) = 3
    /\ config.routes[1].path = "/admin"
    /\ config.routes[2].path = "/example"
    /\ config.routes[3].path = "/public"
    /\ Len(last.surface) = 3
    /\ last.surface[1].path = "/admin"
    /\ last.surface[3].path = "/public"

\* C16: every registration apply makes carries the route's method in lower
\* case as the operation, the route's path verbatim, the chain built for that
\* same route in chain order, and the resolved handler after the chain.
C16_RegisteredTupleFaithful ==
    IsApply =>
        \A i \in DOMAIN last.surface :
            LET route == config.routes[i]
                call == last.surface[i]
            IN  /\ call.op \in {"get", "post", "put", "patch", "delete"}
                /\ call.op = ToLowerCase(route.method)
                /\ call.path = route.path
                /\ ~BuildMiddlewareChain(route).threw
                /\ call.middlewares = BuildMiddlewareChain(route).value
                /\ call.handler =
                       <<ControllerNameOf(route.handler), MethodNameOf(route.handler)>>
                /\ HandlerResolves(route)

\* a POST route with an enabled middleware and a role check is registered as
\* post with its three-entry chain, after a GET route registered as get
C16_Witness ==
    /\ IsApply /\ Len(last.surface) >= 2
    /\ config.routes[1].method = "GET" /\ last.surface[1].op = "get"
    /\ config.routes[2].method = "POST" /\ last.surface[2].op = "post"
    /\ last.surface[2].path = "/admin"
    /\ Len(last.surface[2].middlewares) = 3
    /\ last.surface[2].handler = <<"user", "get">>

----------------------------------------------------------------------------
(* Error handling *)

\* C19: when a name of the composed list (surviving defaults, then enabled)
\* is not registered, buildMiddlewareChain throws an error that names the
\* first such name and returns no chain; it returns a chain only when every
\* composed name is registered, and then with one entry per name.
C19_MissingMiddlewareThrows ==
    IsBuild =>
        LET route == config.routes[last.route]
            names == Without(config.defaultMiddlewares, OrEmpty(route.disabled))
                         \o OrEmpty(route.enabled)
            missing == {k \in DOMAIN names :
                            names[k] \notin DOMAIN middlewareRegistry}
        IN  /\ missing # {} =>
                   /\ last.threw
                   /\ last.returns = "nothing"
                   /\ last.chain = <<>>
                   /\ \E k \in missing :
                          /\ \A j \in missing : k <= j
                          /\ last.error = <<"Middleware", names[k], "not registered">>
            /\ missing = {} =>
                   /\ ~last.threw
                   /\ last.returns = "chain"
                   /\ Len(last.chain) >= Len(names)

\* logging is registered, auth is not: the chain of [logging, auth] is
\* refused with the error naming auth
C19_Witness ==
    /\ IsBuild /\ last.threw
    /\ config.defaultMiddlewares = <<"logging">>
    /\ config.routes[last.route].enabled = Some(<<"auth">>)
    /\ config.routes[last.route].disabled = None
    /\ "logging" \in DOMAIN middlewareRegistry
    /\ "auth" \notin DOMAIN middlewareRegistry
    /\ last.error = <<"Middleware", "auth", "not registered">>
    /\ last.chain = <<>>

\* C18: validate() never throws: whatever is registered, and whether a
\* handler names an unregistered controller, a missing method, or is not a
\* controller.method reference at all, it returns a report, whose valid flag
\* says that the error list is empty.
C18_ValidatorNeverThrows ==
    IsValidate =>
        /\ ~last.threw
        /\ last.error = <<>>
        /\ last.returns = "report"
        /\ last.report.valid <=> (last.report.errors = <<>>)

\* a report is returned for a config with a handler that has no method part,
\* next to a well-formed one, while no controller is registered
C18_Witness ==
    /\ IsValidate /\ last.returns = "report"
    /\ controllerRegistry = [n \in {} |-> {}]
    /\ \E i \in DOMAIN config.routes : config.routes[i].handler = <<"user">>
    /\ \E i \in DOMAIN config.routes :
           config.routes[i].handler = <<"user", ".", "get">>
    /\ ~last.report.valid
    /\ Len(last.report.errors) >= 2

\* the entries of a report that come from handler resolution
HandlerEntries(errors) ==
    {k \in DOMAIN errors : errors[k][4][1] \in {"Controller", "Method"}}

\* C20: the report tells the two ways a handler fails to resolve apart: for
\* an unregistered controller the entry names the route's method and path
\* and the controller; for a registered controller without the method it
\* names the route, the method and the controller; and there is exactly one
\* handler entry per route whose handler does not resolve.
C20_HandlerErrorsDistinguish ==
    IsValidate =>
        LET errors == last.report.errors
            routes == config.routes
            controller(i) == routes[i].handler[1]
            method(i) == IF Len(routes[i].handler) >= 3
                         THEN routes[i].handler[3] ELSE "undefined"
            unregistered == {i \in DOMAIN routes :
                                controller(i) \notin DOMAIN controllerRegistry}
            methodless == {i \in DOMAIN routes :
                              /\ controller(i) \in DOMAIN controllerRegistry
                              /\ method(i) \notin controllerRegistry[controller(i)]}
        IN  /\ \A i \in unregistered :
                   \E k \in DOMAIN errors :
                       errors[k] = <<"Route", routes[i].method, routes[i].path,
                                     <<"Controller", controller(i),
                                       "not registered">> >>
            /\ \A i \in methodless :
                   \E k \in DOMAIN errors :
                       errors[k] = <<"Route", routes[i].method, routes[i].path,
                                     <<"Method", method(i),
                                       "not found in controller",
                                       controller(i)>> >>
            /\ Cardinality(HandlerEntries(errors))
                   = Cardinality(unregistered \cup methodless)

\* the controller is registered with the method: of a resolvable route and
\* one whose handler has no method part, only the second gets an entry
C20_Witness ==
    /\ IsValidate
    /\ "user" \in DOMAIN controllerRegistry
    /\ controllerRegistry["user"] = {"get"}
    /\ Len(config.routes) = 2
    /\ config.routes[1].handler = <<"user", ".", "get">>
    /\ config.routes[2].handler = <<"user">>
    /\ Cardinality(HandlerEntries(last.report.errors)) = 1
    /\ \E k \in DOMAIN last.report.errors :
           last.report.errors[k][4]
               = <<"Method", "undefined", "not found in controller", "user">>

----------------------------------------------------------------------------
(* The validator's report *)

\* the entries of a report that name a missing middleware
MiddlewareEntries(errors) ==
    {k \in DOMAIN errors : errors[k][4][1] = "Middleware"}

\* the distinct names of defaultMiddlewares and route.enabled that are not
\* registered
DistinctMissing(route) ==
    {name \in {config.defaultMiddlewares[k] : k \in DOMAIN config.defaultMiddlewares}
              \cup {OrEmpty(route.enabled)[k] : k \in DOMAIN OrEmpty(route.enabled)} :
        name \notin DOMAIN middlewareRegistry}

RECURSIVE DistinctMissingUpTo(_)
DistinctMissingUpTo(n) ==
    IF n = 0 THEN 0
    ELSE DistinctMissingUpTo(n - 1) + Cardinality(DistinctMissing(config.routes[n]))

\* C21: the report holds, per route, one middleware error for each distinct
\* name of defaultMiddlewares and route.enabled that is not registered: a
\* missing name that occurs in both lists, or twice in one, is reported once
\* for that route.
C21_OneErrorPerMissingName ==
    IsValidate =>
        Cardinality(MiddlewareEntries(last.report.errors))
            = DistinctMissingUpTo(Len(config.routes))

\* what one route contributes to the report: its handler error, then an
\* error per unregistered name of defaultMiddlewares, then of route.enabled
ExpectedEntries(route) ==
    LET controller == route.handler[1]
        method == IF Len(route.handler) >= 3 THEN route.handler[3]
                  ELSE "undefined"
        entry(message) == <<"Route", route.method, route.path, message>>
        unregistered(names) ==
            SelectSeq(names, LAMBDA n : n \notin DOMAIN middlewareRegistry)
        named(names) ==
            [k \in DOMAIN names |->
                entry(<<"Middleware", names[k], "not registered">>)]
    IN  (IF controller \notin DOMAIN controllerRegistry
         THEN <<entry(<<"Controller", controller, "not registered">>)>>
         ELSE IF method \notin controllerRegistry[controller]
         THEN <<entry(<<"Method", method, "not found in controller",
                        controller>>)>>
         ELSE <<>>)
        \o named(unregistered(config.defaultMiddlewares))
        \o named(unregistered(OrEmpty(route.enabled)))

RECURSIVE ExpectedReport(_)
ExpectedReport(n) ==
    IF n = 0 THEN <<>>
    ELSE ExpectedReport(n - 1) \o ExpectedEntries(config.routes[n])

\* C22: the error list is ordered: the errors of a route come before those
\* of every later route of the table, and within a route the handler error
\* comes first, then the errors of missing defaults in the order of
\* defaultMiddlewares, then those of missing enabled names in their order.
C22_ErrorsOrdered ==
    IsValidate => last.report.errors = ExpectedReport(Len(config.routes))

\* two routes with three errors each: handler, logging (default), auth
\* (enabled) for /admin, then the handler and logging errors of /item
C22_Witness ==
    /\ IsValidate
    /\ Len(config.routes) = 2
    /\ config.routes[1].path = "/admin"
    /\ config.routes[2].path = "/item"
    /\ Len(last.report.errors) = 5
    /\ last.report.errors[1][4][1] = "Controller"
    /\ last.report.errors[2][4] = <<"Middleware", "logging", "not registered">>
    /\ last.report.errors[3][4] = <<"Middleware", "auth", "not registered">>
    /\ last.report.errors[4][3] = "/item"
    /\ last.report.errors[5][4] = <<"Middleware", "logging", "not registered">>

----------------------------------------------------------------------------
(* Registries *)

\* reg is old with name set to value: every other entry is kept as it was
SetIn(reg, old, name, value) ==
    /\ DOMAIN reg = DOMAIN old \cup {name}
    /\ reg[name] = value
    /\ \A n \in DOMAIN old : n # name => reg[n] = old[n]

\* C23: no operation of the router removes a name from a registry; a
\* register call leaves the name registered with the value it was just
\* given, also when the name had another value before, keeps every other
\* entry, and returns the router.
C23_RegistriesOnlyGrow ==
    [][/\ DOMAIN middlewareRegistry \subseteq DOMAIN middlewareRegistry'
       /\ DOMAIN controllerRegistry \subseteq DOMAIN controllerRegistry'
       /\ requested'.kind = "middleware" =>
              /\ SetIn(middlewareRegistry', middlewareRegistry,
                       requested'.name, requested'.middleware)
              /\ controllerRegistry' = controllerRegistry
              /\ last'.returns = "this" /\ ~last'.threw
       /\ requested'.kind = "controller" =>
              /\ SetIn(controllerRegistry', controllerRegistry,
                       requested'.name, requested'.controller)
              /\ middlewareRegistry' = middlewareRegistry
              /\ last'.returns = "this" /\ ~last'.threw
       /\ requested'.kind = "none" =>
              /\ middlewareRegistry' = middlewareRegistry
              /\ controllerRegistry' = controllerRegistry]_vars

\* logging is registered a second time, with another callable, next to two
\* other registered names
C23_Witness ==
    /\ requested.kind = "middleware" /\ requested.replaced
    /\ requested.name = "logging"
    /\ middlewareRegistry["logging"] = requested.middleware
    /\ DOMAIN middlewareRegistry = {"logging", "auth", "roleCheck"}
    /\ last.op = "registerMiddleware" /\ last.returns = "this"

----------------------------------------------------------------------------
(* createConfiguredRouter *)

----------------------------------------------------------------------------
(* RouteBuilder *)

\* C25: with the defaults and registrations of the router, the legacy
\* RouteBuilder builds, for include = enabled, exclude = disabled, roles and
\* excludeRole = excludeRoles of a route, what the router's chain builder
\* builds for that route (the same chain, or the same error); without a
\* config it builds the chain of the defaults and default roles as they are;
\* and route(handler, config) is that chain with the handler as last entry.
C25_RouteBuilderEquivalent ==
    LET router == BuildMiddlewareChain(config.routes[last.route])
        defaults == config.defaultMiddlewares
    IN  /\ (last.op = "RouteBuilder.buildMiddlewareChain" /\ last.route # 0) =>
               /\ last.threw = router.threw
               /\ last.error = router.error
               /\ last.chain = router.value
        /\ (last.op = "RouteBuilder.buildMiddlewareChain" /\ last.route = 0
              /\ ~last.threw) =>
               /\ StartsWithNamed(last.chain, defaults)
               /\ Len(last.chain) = Len(defaults)
                      + (IF config.defaultRoles # <<>>
                            /\ "roleCheck" \in DOMAIN middlewareRegistry
                         THEN 1 ELSE 0)
               /\ Len(last.chain) > Len(defaults) =>
                      last.chain[Len(last.chain)]
                          = Invoke(middlewareRegistry["roleCheck"],
                                   config.defaultRoles)
        /\ (last.op = "RouteBuilder.buildMiddlewareChain" /\ last.route = 0
              /\ last.threw) =>
               \E k \in DOMAIN defaults :
                   /\ defaults[k] \notin DOMAIN middlewareRegistry
                   /\ last.error = <<"Middleware", defaults[k], "not registered">>
        /\ last.op = "RouteBuilder.route" =>
               /\ last.threw = router.threw
               /\ last.error = router.error
               /\ ~last.threw =>
                      last.chain = router.value \o <<Callable("handler")>>

\* route(handler, {include: [auth], exclude: [logging], roles: [admin]}) over
\* defaults [logging, auth]: auth, auth, the role check, then the handler
C25_Witness ==
    /\ last.op = "RouteBuilder.route" /\ ~last.threw
    /\ config.defaultMiddlewares = <<"logging", "auth">>
    /\ config.routes[last.route].enabled = Some(<<"auth">>)
    /\ config.routes[last.route].disabled = Some(<<"logging">>)
    /\ config.routes[last.route].roles = Some(<<"admin">>)
    /\ Len(last.chain) = 4
    /\ last.chain[3].applied
    /\ last.chain[4] = Callable("handler")

----------------------------------------------------------------------------
(* Cron locks *)

\* the instances whose callback is executing the task
Executing == {i \in Instances : instances[i].pc = "task"}

C27_ReleaseRespectsOwnership ==
    [][\A i \in Instances :
          (/\ instances[i].pc = "release"
           /\ instances'[i].pc = "idle"
           /\ lockStore.held
           /\ lockStore.instanceId # i
           /\ now < lockStore.expiresAt)
          => lockStore' = lockStore]_vars

\* C28: of concurrent acquireLock calls on the file backend, however their
\* steps interleave and whether or not an expired lock file is there at the
\* start, at most one returns true, and the lock file then on disk is the
\* one that call wrote.
C28_FileAcquireExclusive ==
    LET winners == {i \in Instances : instances[i].acquired}
    IN  /\ Cardinality(winners) <= 1
        /\ \A i \in winners :
               lockStore = [held |-> TRUE, instanceId |-> i,
                            expiresAt |-> instances[i].expiresAt]

\* C29: a callback that acquired the lock and started the task goes on,
\* once the task has settled, to call releaseLock and to end normally,
\* whether the task resolved or was rejected (the rejection is logged and
\* does not leave the callback).
C29_AcquiredLockReleased ==
    \A i \in Instances :
        (instances[i].pc = "task") ~>
            (/\ instances[i].pc = "idle"
             /\ instances[i].released
             /\ instances[i].outcome \in {"completed", "failed"})

\* the task of instance 1 was rejected and its lock released; instance 2 got
\* the lock before the ttl of the first one was over
C29_Witness ==
    /\ instances[1].pc = "idle"
    /\ instances[1].outcome = "failed"
    /\ instances[1].released
    /\ now < instances[1].expiresAt
    /\ instances[2].pc = "task"
    /\ lockStore.held /\ lockStore.instanceId = 2

\* C30: on every backend, whatever fails while the lock is acquired or
\* released, acquireLock returns false and releaseLock returns: no callback
\* ends with an error raised out of it.
C30_AcquireFailsClosed ==
    \A i \in Instances : instances[i].outcome # "raised"

====
